---------------------------- MODULE Spec2Model ----------------------------
(***************************************************************************)
(* The video generation pipeline orchestrator                              *)
(* (codex-cli/src/video-generation/pipeline/orchestrator.ts) as a state    *)
(* machine.  One orchestrator object is constructed from a validated       *)
(* configuration; run(topic) is executed step by step, one step per        *)
(* interaction with a collaborator: an agent call, the TTS service, the    *)
(* video assembler, an event delivered to the listeners, the state file.   *)
(* Every collaborator either returns or throws; a listener may throw out   *)
(* of emit (EventEmitter calls listeners synchronously).                   *)
(***************************************************************************)
EXTENDS Integers, Sequences, FiniteSets, TLC

(***************************************************************************)
(* Bounds of the model.                                                    *)
(***************************************************************************)
\* the ideation agent returns between 0 and MaxIdeas candidates
MaxIdeas == 5
\* error records kept in the modelled errors log; later ones set errorsTruncated
MaxErrors == 3
\* agent invocations counted per runStage request (the counter saturates)
MaxAttempts == 3
\* minutes an agent or service call is watched while it has not settled
MaxWait == 2
\* calls of run on one orchestrator, where runs are repeated
MaxRuns == 2
\* writes of the state file counted per run
MaxWrites == 2
\* user and assistant messages kept in an agent's conversation history
MaxHistory == 8

\* part_003 line 33: private maxIterations: number = 5
maxIterations == 5

(***************************************************************************)
(* Program constants.                                                      *)
(***************************************************************************)
\* selectIdeas, non-interactive: ideas.slice(0, 3)
SelectCount == 3

Topics == {"gravity"}

StageIds ==
  {"ideation", "direction", "animation", "voice-script",
   "voice-synthesis", "final-assembly"}

\* the stages dispatched through runStage, and the two run inline
AgentStages == {"ideation", "direction", "animation", "voice-script"}
InlineStages == {"voice-synthesis", "final-assembly"}
\* the stages run once per selected candidate
BranchStages == StageIds \ {"ideation"}

\* keys of state.stageOutputs the orchestrator may write
OutputKeys == StageIds \cup {"critique", "finalVideos"}

\* the agent classes createAgent knows (switch on config.id)
KnownAgentTypes ==
  {"ideation-agent", "director-agent", "coding-agent", "voice-agent"}

Terminal == {"completed", "failed"}
StatusValues == {"running", "completed", "failed", "cancelled"}

(***************************************************************************)
(* Configuration.                                                          *)
(***************************************************************************)
\* the ConfigLoader the orchestrator's constructor creates (line 47) and two
\* loaders created by other callers
Callers == {"a", "b"}
Loaders == {"orchestrator"} \cup Callers

\* the video object of defaultPipelineConfig and the object a merge creates
OwnVideo(l) == l \o ".video"
VideoObjects == {"default.video"} \cup {OwnVideo(l) : l \in Loaders}

\* default.ts line 168: video.duration of the default configuration
DefaultDuration == 30

\* default.ts lines 191-216: the duration each preset sets
presets ==
  [p \in {"quick-demo", "full-lecture", "social-media"} |->
     CASE p = "quick-demo" -> 15
       [] p = "full-lecture" -> 600
       [] p = "social-media" -> 60]

\* values callers pass to setVideoDuration and setAgentModel
Durations == {45, 90}
Models == {"gpt-4-turbo-preview", "gpt-4o"}

defaultPipelineConfig ==
  [ agents |-> {"ideation-agent", "director-agent", "coding-agent",
                "voice-agent", "critique-agent"},
    stages |-> StageIds,
    agentOf |-> [s \in StageIds |->
                   CASE s = "ideation" -> "ideation-agent"
                     [] s = "direction" -> "director-agent"
                     [] s = "animation" -> "coding-agent"
                     [] s = "voice-script" -> "voice-agent"
                     [] OTHER -> "none"],
    retryOnFailure |-> {"animation"},
    timeout |-> [s \in StageIds |->
                   CASE s \in {"ideation", "voice-synthesis"} -> 1
                     [] s = "animation" -> 10
                     [] OTHER -> 2],
    enableCritique |-> TRUE,
    critiqueAgent |-> "critique-agent" ]

\* configurations a custom config file can produce by overriding the default
\* (mergeConfigs replaces arrays and scalars wholesale)
Configs ==
  { defaultPipelineConfig,
    [defaultPipelineConfig EXCEPT !.retryOnFailure = {}],
    [defaultPipelineConfig EXCEPT !.retryOnFailure = {}, !.enableCritique = FALSE],
    [defaultPipelineConfig EXCEPT !.retryOnFailure = {},
                                  !.critiqueAgent = "voice-agent"],
    [defaultPipelineConfig EXCEPT !.retryOnFailure = {},
                                  !.agentOf["direction"] = "none"],
    [defaultPipelineConfig EXCEPT !.retryOnFailure = {},
                                  !.stages = StageIds \ {"direction"}],
    [defaultPipelineConfig EXCEPT !.retryOnFailure = {},
                                  !.stages = StageIds \ {"voice-script"}],
    [defaultPipelineConfig EXCEPT !.retryOnFailure = {},
                                  !.agentOf["voice-script"] = "critique-agent"],
    [defaultPipelineConfig EXCEPT !.retryOnFailure = {},
                                  !.agentOf["animation"] = "missing-agent"],
    [defaultPipelineConfig EXCEPT !.agents = @ \ {"voice-agent"}] }

\* validation that finds no stage without its agent
ValidationErrorsNone(c) == {}

\* ConfigLoader.validate, lines 142-147: one error per stage whose agent is
\* not 'none' and not the id of an entry of agents; the message names the
\* stage and the agent (the video and outputDir checks pass for every
\* configuration here, which keeps the default values of those fields)
ValidationErrors(c) ==
  {<<s, c.agentOf[s]>> :
     s \in {x \in c.stages : c.agentOf[x] # "none" /\ c.agentOf[x] \notin c.agents}}

\* default.ts lines 167-169 and 185: video.duration, video.fps and outputDir
\* of the default configuration.  fps is a number that need not be whole
\* (a config file can say 0.5): it is kept in half frames per second, so
\* the default 60 is 120 here; outputDir is kept as whether it is a
\* non-empty string
defaultVideo == [duration |-> DefaultDuration, fps |-> 120, outputDir |-> TRUE]

\* the video settings a custom config file can give
VideoConfigs ==
  [duration : {-5, 0, DefaultDuration},
   fps : {-2, 0, 1, 2, 120, 240, 241},
   outputDir : BOOLEAN]

\* ConfigLoader.validate, lines 150-161: duration <= 0; fps <= 0 or
\* fps > 120 (240 half frames); !outputDir
VideoErrors(v) ==
  (IF v.duration <= 0 THEN {<<"video", "duration">>} ELSE {}) \cup
  (IF v.fps <= 0 \/ v.fps > 240 THEN {<<"video", "fps">>} ELSE {}) \cup
  (IF ~v.outputDir THEN {<<"outputDir", "missing">>} ELSE {})

\* ConfigLoader.validate, lines 139-167: {valid, errors}
validate(c, v) ==
  LET found == ValidationErrors(c) \cup VideoErrors(v)
  IN [valid |-> found = {}, errors |-> found]

\* ConfigLoader.validate, line 164: valid: errors.length === 0
Validate(c) == ValidationErrors(c) = {}

\* initializeAgents/createAgent: a handle for every configured agent whose id
\* is one of the known agent classes; others are skipped with a warning
Registry(c) == c.agents \cap KnownAgentTypes


(***************************************************************************)
(* State.                                                                  *)
(***************************************************************************)
VARIABLES
  cfg,              \* this.config
  interactive,      \* this.interactive
  agents,           \* this.agents: the ids that have a handle
  ctorError,        \* the validation errors in the message the constructor threw
  video,            \* config.video.duration, config.video.fps, config.outputDir
  videoRef,         \* per ConfigLoader, the object its config.video refers to
  heap,             \* per video object, its duration field
  agentModel,       \* model.model of the default agents array's first entry
  missingPath,      \* which input file the assembler finds missing, if any
  muxIssued,        \* the assembler has issued its muxing command
  writes,           \* times saveState has written the state file in this run
  lifecycle,        \* the pipeline:* events this call of run has emitted
  codingPc,         \* CodingAgent.execute: where the call is
  iterations,       \* implementManimAnimation: iterations
  lastError,        \* implementManimAnimation: lastError, by the call that set it
  animationCode,    \* implementManimAnimation: animationCode, by the call that made it
  fixArgs,          \* the code and the error the latest fixCode call was given
  renders,          \* renderAnimation calls of this execute call
  codingOutput,     \* what execute returned
  systemPrompt,     \* BaseAgent: config.systemPrompt is set
  conversationHistory, \* BaseAgent: the roles of the messages in the history
  apiResult,        \* what generateEducationalVideo returned
  topic,            \* state.topic
  currentStage,     \* state.currentStage
  status,           \* state.status
  stageOutputs,     \* state.stageOutputs
  errors,           \* state.errors: the stage field of each record
  errorsTruncated,  \* records were appended beyond MaxErrors
  endTimeSet,       \* state.endTime is defined
  file,             \* content of workflow_state.json
  pc,               \* where run stands
  waited,           \* minutes the call being awaited has been pending
  stageArg,         \* stageId of the stage function being executed
  result,           \* the StageResult being produced / just returned
  inputs,           \* the inputs the stage function was called with
  animationResult,  \* processVideo: animationResult
  selectedIdeas,    \* run: selectedIdeas
  selIdx,           \* run: position of the direction loop in selectedIdeas
  directionResults, \* run: directionResults
  procIdx,          \* run: i + 1 of the processVideo loop
  finalVideos,      \* run: finalVideos
  runs,             \* calls of run so far
  caught,           \* run's catch block was entered in this call
  attempts,         \* agent invocations of the current runStage request
  invoked,          \* stage functions entered in this call of run
  ideationFailed,   \* runStage('ideation') returned a failure result
  succeeded,        \* per candidate, the branch stages that returned success
  processed         \* branches for which processVideo has returned

loaderVars == <<videoRef, heap, agentModel>>
fsVars == <<missingPath, muxIssued>>
codingVars ==
  <<codingPc, iterations, lastError, animationCode, fixArgs, renders,
    codingOutput>>
historyVars == <<systemPrompt, conversationHistory>>
apiVars == <<apiResult>>
agentVars == <<codingVars, historyVars, apiVars>>
cfgVars == <<cfg, interactive, agents, ctorError, video, loaderVars, agentVars>>
stateVars ==
  <<topic, currentStage, status, stageOutputs, errors, errorsTruncated,
    endTimeSet>>
ctlVars == <<pc, stageArg, result>>
frameVars == <<inputs, animationResult>>
loopVars == <<selectedIdeas, selIdx, directionResults, procIdx, finalVideos>>
obsVars == <<runs, caught, attempts, invoked, ideationFailed, succeeded,
             processed>>
vars ==
  <<cfgVars, writes, lifecycle, fsVars, stateVars, file, ctlVars, waited,
    frameVars, loopVars,
    obsVars>>

(***************************************************************************)
(* Values.                                                                 *)
(***************************************************************************)
\* an output bundle recorded under a key of stageOutputs.  payload says that
\* the bundle holds the field its reader takes from it (ideas, scenePlans[0],
\* videoFile, voiceScript); idea is the candidate it was produced for; count
\* is the number of ideas (ideation); videos is the final list (finalVideos).
Bundle(payload, idea, count, videos) ==
  [present |-> TRUE, payload |-> payload, idea |-> idea, count |-> count,
   videos |-> videos]

Absent ==
  [present |-> FALSE, payload |-> FALSE, idea |-> 0, count |-> 0,
   videos |-> <<>>]

\* outputs = {} of a stage whose agent is 'none'
EmptyOutputs == Bundle(FALSE, 0, 0, <<>>)

\* a StageResult: {stageId, success, outputs?, error?}
NoResult == [success |-> FALSE, hasOutputs |-> FALSE, hasError |-> FALSE,
             outputs |-> Absent]
SuccessResult(o) == [success |-> TRUE, hasOutputs |-> TRUE, hasError |-> FALSE,
                     outputs |-> o]
\* a failure result built without the error field
FailureResultBare == [success |-> FALSE, hasOutputs |-> FALSE, hasError |-> FALSE,
                      outputs |-> Absent]
FailureResult == [success |-> FALSE, hasOutputs |-> FALSE, hasError |-> TRUE,
                  outputs |-> Absent]

Min(a, b) == IF a < b THEN a ELSE b

\* generateEducationalVideo has not returned
NoApiResult ==
  [returned |-> FALSE, thrown |-> FALSE, success |-> FALSE, videos |-> <<>>,
   error |-> <<>>]

\* CodingOutput (part_003 lines 23-30): whether videoFile and errors are set
NoCodingOutput == [returned |-> FALSE, videoFile |-> FALSE, errors |-> FALSE]

\* the candidate a branch stage is working on
CurrentIdea ==
  IF stageArg = "direction"
    THEN IF selIdx <= Len(selectedIdeas) THEN selectedIdeas[selIdx] ELSE 0
  ELSE IF stageArg \in BranchStages /\ procIdx <= Len(directionResults)
    THEN directionResults[procIdx]
  ELSE 0

\* a selection that keeps every candidate
SelectIdeasAll(inter, n) == [i \in 1..n |-> i]

(***************************************************************************)
(* selectIdeas: the first three candidates, or, in interactive mode, the   *)
(* simulated selection [0, 2] of the candidates that exist.  Candidates    *)
(* are named by their position 1..n in the ideation output.                *)
(***************************************************************************)
SelectIdeas(inter, n) ==
  IF ~inter
    THEN [i \in 1..Min(SelectCount, n) |-> i]
    ELSE SelectSeq(<<1, 3>>, LAMBDA i : i <= n)

(***************************************************************************)
(* JSON.stringify(this.state): the fields of the run state; keys of        *)
(* stageOutputs that were never written do not appear.                     *)
(***************************************************************************)
\* a serialisation that stamps the content with the number of the write
SerializeStamped ==
  [ topic |-> topic, currentStage |-> currentStage, status |-> status,
    errors |-> errors, endTime |-> endTimeSet,
    stageOutputs |-> {<<k, stageOutputs[k]>> :
                        k \in {x \in OutputKeys : stageOutputs[x].present}},
    savedAt |-> writes ]

Serialize ==
  [ topic |-> topic, currentStage |-> currentStage, status |-> status,
    errors |-> errors, endTime |-> endTimeSet,
    stageOutputs |-> {<<k, stageOutputs[k]>> :
                        k \in {x \in OutputKeys : stageOutputs[x].present}} ]

NoFile ==
  [ topic |-> "", currentStage |-> "", status |-> "none", errors |-> <<>>,
    endTime |-> FALSE, stageOutputs |-> {} ]

(***************************************************************************)
(* new VideoGenerationOrchestrator: the configuration has been loaded by   *)
(* ConfigLoader (line 48); the run state has its initial field values.     *)
(***************************************************************************)
InitFrom(videos, prompts) ==
  /\ cfg \in Configs
  /\ video \in videos
  /\ codingPc = "idle"
  /\ iterations = 0
  /\ lastError = "null"
  /\ animationCode = ""
  /\ fixArgs = <<"", "null">>
  /\ renders = 0
  /\ codingOutput = NoCodingOutput
  /\ systemPrompt \in prompts
  /\ conversationHistory = IF systemPrompt THEN <<"system">> ELSE <<>>
  /\ apiResult = NoApiResult
  /\ interactive \in BOOLEAN
  /\ agents = {}
  /\ ctorError = {}
  /\ videoRef = [l \in Loaders |-> "unset"]
  /\ heap = [o \in VideoObjects |-> DefaultDuration]
  /\ agentModel = "gpt-4-turbo-preview"
  /\ missingPath = "none"
  /\ muxIssued = FALSE
  /\ writes = 0
  /\ lifecycle = <<>>
  /\ topic = ""
  /\ currentStage = ""
  /\ status = "running"
  /\ stageOutputs = [k \in OutputKeys |-> Absent]
  /\ errors = <<>>
  /\ errorsTruncated = FALSE
  /\ endTimeSet = FALSE
  /\ file = NoFile
  /\ pc = "constructor"
  /\ waited = 0
  /\ stageArg = ""
  /\ result = NoResult
  /\ inputs = <<>>
  /\ animationResult = NoResult
  /\ selectedIdeas = <<>>
  /\ selIdx = 1
  /\ directionResults = <<>>
  /\ procIdx = 1
  /\ finalVideos = <<>>
  /\ runs = 0
  /\ caught = FALSE
  /\ attempts = 0
  /\ invoked = {}
  /\ ideationFailed = FALSE
  /\ succeeded = [k \in 1..SelectCount |-> {}]
  /\ processed = {}

\* the video settings and the output directory are the default's
Init == InitFrom({defaultVideo}, {TRUE})

(***************************************************************************)
(* ConfigLoader: what its operations do to the objects configurations are  *)
(* made of.  A loader built without a config file holds a shallow copy of  *)
(* defaultPipelineConfig (line 18), so its video object and its agents     *)
(* array are the default's own; mergeConfigs builds a new video object.    *)
(***************************************************************************)
\* the orchestrator's variables
pipelineVars ==
  <<cfg, interactive, agents, ctorError, video, writes, lifecycle, fsVars,
    stateVars, file,
    ctlVars, waited, frameVars, loopVars, obsVars>>

\* everything but the loaders' objects
runVars == <<pipelineVars, agentVars>>

\* constructor, line 18: this.config = { ...defaultPipelineConfig }
NewConfigLoader(l) ==
  /\ videoRef[l] = "unset"
  /\ videoRef' = [videoRef EXCEPT ![l] = "default.video"]
  /\ UNCHANGED <<heap, agentModel, runVars>>

\* setVideoDuration, line 66: this.config.video.duration = seconds
SetVideoDuration(l, d) ==
  /\ l \in Callers
  /\ videoRef[l] # "unset"
  /\ heap' = [heap EXCEPT ![videoRef[l]] = d]
  /\ UNCHANGED <<videoRef, agentModel, runVars>>

\* applyPreset / override, lines 46-60 with mergeConfigs 25-41: the video key
\* is an object, so result.video is a new object made from the old one and
\* the preset's fields
ApplyPreset(l, p) ==
  /\ l \in Callers
  /\ videoRef[l] # "unset"
  /\ videoRef' = [videoRef EXCEPT ![l] = OwnVideo(l)]
  /\ heap' = [heap EXCEPT ![OwnVideo(l)] = presets[p]]
  /\ UNCHANGED <<agentModel, runVars>>

\* setAgentModel, lines 73-79: the agent found in this.config.agents, which
\* is the default's array, gets a new model object
SetAgentModel(l, m) ==
  /\ l \in Callers
  /\ videoRef[l] # "unset"
  /\ agentModel' = m
  /\ UNCHANGED <<videoRef, heap, runVars>>

\* createConfigFromEnv, lines 173-179, with VIDEO_DURATION set
CreateConfigFromEnv(l, d) ==
  /\ l \in Callers
  /\ videoRef[l] = "unset"
  /\ videoRef' = [videoRef EXCEPT ![l] = "default.video"]
  /\ heap' = [heap EXCEPT !["default.video"] = d]
  /\ UNCHANGED <<agentModel, runVars>>

(***************************************************************************)
(* CodingAgent.execute and implementManimAnimation, part_003 lines 35-104. *)
(***************************************************************************)
\* lines 36-43 and 58: the framework is not manim, or ensureManimInstalled
\* (pip install) throws
ExecuteThrows ==
  /\ codingPc = "idle"
  /\ codingPc' = "thrown"
  /\ UNCHANGED <<iterations, lastError, animationCode, fixArgs, renders,
                 codingOutput, historyVars, apiVars,
                 loaderVars, pipelineVars>>

\* lines 36-58: the loop is entered with its locals initialised
ExecuteEnters ==
  /\ codingPc = "idle"
  /\ codingPc' = "loop"
  /\ UNCHANGED <<iterations, lastError, animationCode, fixArgs, renders,
                 codingOutput, historyVars, apiVars,
                 loaderVars, pipelineVars>>

\* lines 61-62 and 66-70: the loop test passes, iterations++, and the code
\* is generated in iteration 1 and fixed in every later one
LoopIterates ==
  /\ codingPc = "loop"
  /\ iterations < maxIterations
  /\ iterations' = iterations + 1
  /\ codingPc' = IF iterations' = 1 THEN "generate" ELSE "fix"
  /\ fixArgs' = IF iterations' = 1 THEN fixArgs ELSE <<animationCode, lastError>>
  /\ UNCHANGED <<lastError, animationCode, renders, codingOutput, historyVars, apiVars,
                 loaderVars, pipelineVars>>

\* lines 61 and 97-103: the iterations are used up; the result has errors
\* and no videoFile
LoopExhausted ==
  /\ codingPc = "loop"
  /\ iterations >= maxIterations
  /\ codingOutput' = [returned |-> TRUE, videoFile |-> FALSE, errors |-> TRUE]
  /\ codingPc' = "returned"
  /\ UNCHANGED <<iterations, lastError, animationCode, fixArgs, renders,
                 historyVars, apiVars,
                 loaderVars, pipelineVars>>

\* line 67: generateInitialCode returns
GenerateReturns ==
  /\ codingPc = "generate"
  /\ animationCode' = "initial"
  /\ codingPc' = "save"
  /\ UNCHANGED <<iterations, lastError, fixArgs, renders, codingOutput,
                 historyVars, apiVars,
                 loaderVars, pipelineVars>>

\* line 69: fixCode returns
FixReturns ==
  /\ codingPc = "fix"
  /\ animationCode' = "fixed"
  /\ codingPc' = "save"
  /\ UNCHANGED <<iterations, lastError, fixArgs, renders, codingOutput,
                 historyVars, apiVars,
                 loaderVars, pipelineVars>>

\* lines 67-76 and 92-94: generateInitialCode, fixCode or saveToFile throws;
\* the catch block keeps the message and the loop goes on
StepThrows ==
  /\ codingPc \in {"generate", "fix", "save"}
  /\ lastError' = codingPc
  /\ codingPc' = "loop"
  /\ UNCHANGED <<iterations, animationCode, fixArgs, renders, codingOutput,
                 historyVars, apiVars,
                 loaderVars, pipelineVars>>

\* lines 73-76: saveToFile returns and renderAnimation is called
SaveReturns ==
  /\ codingPc = "save"
  /\ codingPc' = "render"
  /\ renders' = renders + 1
  /\ UNCHANGED <<iterations, lastError, animationCode, fixArgs, codingOutput,
                 historyVars, apiVars,
                 loaderVars, pipelineVars>>

\* lines 79-88: renderResult.success; the result has the video file
RenderSucceeds ==
  /\ codingPc = "render"
  /\ codingOutput' = [returned |-> TRUE, videoFile |-> TRUE, errors |-> FALSE]
  /\ codingPc' = "returned"
  /\ UNCHANGED <<iterations, lastError, animationCode, fixArgs, renders,
                 historyVars, apiVars,
                 loaderVars, pipelineVars>>

\* lines 89-91: the render failed; lastError = renderResult.error
RenderFails ==
  /\ codingPc = "render"
  /\ lastError' = "render"
  /\ codingPc' = "loop"
  /\ UNCHANGED <<iterations, animationCode, fixArgs, renders, codingOutput,
                 historyVars, apiVars,
                 loaderVars, pipelineVars>>

(***************************************************************************)
(* BaseAgent, part_004: sendMessage (lines 53-72) and reset (217-225).     *)
(***************************************************************************)
\* lines 54-66: the user message is pushed, callLLM returns, the assistant
\* message is pushed
SendMessageReturns ==
  /\ Len(conversationHistory) + 2 <= MaxHistory + 1
  /\ conversationHistory' = conversationHistory \o <<"user", "assistant">>
  /\ UNCHANGED <<systemPrompt, codingVars, apiVars, loaderVars, pipelineVars>>

\* lines 54-57 and 67-70: the user message is pushed, callLLM throws, the
\* error is logged and thrown again
SendMessageThrows ==
  /\ Len(conversationHistory) + 1 <= MaxHistory + 1
  /\ conversationHistory' = Append(conversationHistory, "user")
  /\ UNCHANGED <<systemPrompt, codingVars, apiVars, loaderVars, pipelineVars>>

\* lines 217-225
Reset ==
  /\ conversationHistory' = IF systemPrompt THEN <<"system">> ELSE <<>>
  /\ UNCHANGED <<systemPrompt, codingVars, apiVars, loaderVars, pipelineVars>>

(***************************************************************************)
(* Fragments shared by the steps.                                          *)
(***************************************************************************)
\* this.state.errors.push({stage, error, timestamp})
PushError(stage) ==
  /\ errors' = IF Len(errors) < MaxErrors
                 THEN Append(errors, [stage |-> stage])
                 ELSE errors
  /\ errorsTruncated' = (errorsTruncated \/ Len(errors) >= MaxErrors)

\* line 157: finalVideos.length > 0 ? 'completed' : 'failed'
FinalStatus(videos) == IF Len(videos) > 0 THEN "completed" ELSE "failed"

\* the catch block leaves the status as it finds it
CatchStatusUnset == status

\* line 169: the status run's catch block assigns
CatchStatus == "failed"

\* line 171: the stage run's catch block records
CatchStage == currentStage

\* a retry test that every failed stage passes
ShouldRetryAlways(stage) == TRUE

\* line 295: stage.retryOnFailure && stage.agent !== 'none'
ShouldRetry(stage) ==
  stage \in cfg.retryOnFailure /\ cfg.agentOf[stage] # "none"

\* run, lines 168-174: an exception reaches run's catch block
ToRunCatch ==
  /\ status' = CatchStatus
  /\ PushError(CatchStage)
  /\ caught' = TRUE
  /\ pc' = "emitPipelineError"
  /\ lifecycle' = Append(lifecycle, "pipeline:error")
  /\ UNCHANGED <<cfgVars, writes, fsVars, waited, frameVars, topic, currentStage, stageOutputs, endTimeSet, file,
                 stageArg, result, loopVars, runs, attempts, invoked,
                 ideationFailed, succeeded, processed>>

\* the result of processVideo is pushed without the test of line 150
BranchReturnUnchecked(delivered) ==
  /\ finalVideos' = Append(finalVideos, directionResults[procIdx])
  /\ procIdx' = procIdx + 1
  /\ processed' = processed \cup {directionResults[procIdx]}
  /\ pc' = "processLoop"
  /\ missingPath' = "none"
  /\ muxIssued' = FALSE
  /\ UNCHANGED <<cfgVars, lifecycle, writes, waited, frameVars, stateVars, file, stageArg, result, selectedIdeas,
                 selIdx, directionResults, runs, caught, attempts, invoked,
                 ideationFailed, succeeded>>

\* run, lines 149-152: processVideo returns its outputs (delivered) or null
BranchReturn(delivered) ==
  /\ finalVideos' = IF delivered
                      THEN Append(finalVideos, directionResults[procIdx])
                      ELSE finalVideos
  /\ procIdx' = procIdx + 1
  /\ processed' = processed \cup {directionResults[procIdx]}
  /\ pc' = "processLoop"
  /\ missingPath' = "none"
  /\ muxIssued' = FALSE
  /\ UNCHANGED <<cfgVars, lifecycle, writes, waited, frameVars, stateVars, file, stageArg, result, selectedIdeas,
                 selIdx, directionResults, runs, caught, attempts, invoked,
                 ideationFailed, succeeded>>

\* an exception leaves a stage function: inside processVideo it is caught
\* there (lines 234-237), in the ideation and direction calls by run
Raise ==
  IF stageArg \in {"ideation", "direction"}
    THEN ToRunCatch
    ELSE BranchReturn(FALSE)

\* one input of a stage call: the stage whose output it was taken from and
\* the candidate that output was produced for
Input(from, idea) == [from |-> from, idea |-> idea]

\* call sites that always pass the first candidate's scene plans
StageInputsFirstPlan(stage) ==
  CASE stage = "ideation" -> <<>>
    [] stage = "direction" -> <<Input("ideation", selectedIdeas[selIdx])>>
    [] stage = "animation" -> <<Input("direction", directionResults[1])>>
    [] stage = "voice-script" ->
         <<Input("direction", directionResults[1]),
           Input("animation", animationResult.outputs.idea)>>
    [] stage = "voice-synthesis" ->
         <<Input("voice-script", result.outputs.idea)>>
    [] stage = "final-assembly" ->
         <<Input("animation", animationResult.outputs.idea),
           Input("voice-synthesis", result.outputs.idea)>>

\* the inputs each call site builds: {topic} (line 125), selectedIdeas:
\* [idea] (136-139), scenePlans (188-194), scenePlans and
\* animationResult.outputs.animationCode (202-205),
\* voiceResult.outputs.voiceScript (213), animationResult.outputs.videoFile
\* and ttsResult.outputs.audioFile (221-225)
StageInputs(stage) ==
  CASE stage = "ideation" -> <<>>
    [] stage = "direction" -> <<Input("ideation", selectedIdeas[selIdx])>>
    [] stage = "animation" -> <<Input("direction", directionResults[procIdx])>>
    [] stage = "voice-script" ->
         <<Input("direction", directionResults[procIdx]),
           Input("animation", animationResult.outputs.idea)>>
    [] stage = "voice-synthesis" ->
         <<Input("voice-script", result.outputs.idea)>>
    [] stage = "final-assembly" ->
         <<Input("animation", animationResult.outputs.idea),
           Input("voice-synthesis", result.outputs.idea)>>

\* the candidate the stage function works on: that of its first input
Subject == IF inputs = <<>> THEN 0 ELSE inputs[1].idea

\* a call of runStage(stage, inputs) from run or processVideo
CallRunStage(stage) ==
  /\ pc' = "runStage"
  /\ stageArg' = stage
  /\ inputs' = StageInputs(stage)
  /\ result' = NoResult
  /\ attempts' = 0
  /\ invoked' = invoked \cup {stage}
  /\ UNCHANGED <<cfgVars, lifecycle, writes, fsVars, waited, animationResult, stateVars, file, loopVars, runs, caught,
                 ideationFailed, succeeded, processed>>

\* a call of runTTS or assembleVideo from processVideo; for assembleVideo the
\* files at videoPath and audioPath are as the assembler's existsSync calls
\* (part_001 lines 58-63) will find them: both there, or one of them missing
CallInline(stage) ==
  /\ pc' = "emitStageStart"
  /\ stageArg' = stage
  /\ inputs' = StageInputs(stage)
  /\ result' = NoResult
  /\ invoked' = invoked \cup {stage}
  /\ missingPath' \in (IF stage = "final-assembly"
                         THEN {"none", "video", "audio"}
                         ELSE {"none"})
  /\ UNCHANGED <<cfgVars, lifecycle, writes, muxIssued, waited, animationResult, stateVars, file, loopVars, runs, caught, attempts,
                 ideationFailed, succeeded, processed>>

\* what agent.execute can return for a stage: the ideation agent a list of
\* 0..MaxIdeas ideas, the coding agent a bundle with or without videoFile,
\* any agent a bundle with the field its own class produces
AgentOutputs(stage, agent) ==
  LET natural == [s \in AgentStages |->
                    CASE s = "ideation" -> "ideation-agent"
                      [] s = "direction" -> "director-agent"
                      [] s = "animation" -> "coding-agent"
                      [] s = "voice-script" -> "voice-agent"]
  IN  IF agent # natural[stage]
        THEN {Bundle(FALSE, Subject, 0, <<>>)}
      ELSE IF stage = "ideation"
        THEN {Bundle(TRUE, 0, n, <<>>) : n \in 0..MaxIdeas}
      ELSE IF stage = "animation"
        THEN {Bundle(b, Subject, 0, <<>>) : b \in BOOLEAN}
      ELSE {Bundle(TRUE, Subject, 0, <<>>)}

(***************************************************************************)
(* new VideoGenerationOrchestrator(options), lines 43-78.                  *)
(***************************************************************************)
\* lines 51-54: validation fails and the constructor throws
\* 'Invalid configuration: ' followed by the validation errors
ConstructorThrows ==
  /\ pc = "constructor"
  /\ ~(Validate(cfg) /\ validate(cfg, video).valid)
  /\ ctorError' = validate(cfg, video).errors
  /\ pc' = "constructorThrown"
  /\ UNCHANGED <<video, loaderVars, agentVars, writes, lifecycle, fsVars, cfg, interactive, agents, stateVars, file, waited, frameVars, stageArg,
                 result, loopVars, obsVars>>

\* lines 51-77: validation passes, the agents are created
Constructor ==
  /\ pc = "constructor"
  /\ Validate(cfg) /\ validate(cfg, video).valid
  /\ agents' = Registry(cfg)
  /\ pc' = "idle"
  /\ UNCHANGED <<video, loaderVars, agentVars, writes, lifecycle, fsVars, cfg, interactive, ctorError, stateVars, file, waited, frameVars,
                 stageArg, result, loopVars, obsVars>>

(***************************************************************************)
(* run(topic), lines 119-122, called on a freshly constructed orchestrator *)
(* (runVideoPipeline constructs one orchestrator per run).                 *)
(***************************************************************************)
\* run(topic) starting from a fresh state object
StartRunFresh(t) ==
  /\ topic' = t
  /\ writes' = 0
  /\ lifecycle' = <<"pipeline:start">>
  /\ pc' = "emitPipelineStart"
  /\ stageArg' = ""
  /\ result' = NoResult
  /\ selectedIdeas' = <<>>
  /\ selIdx' = 1
  /\ directionResults' = <<>>
  /\ procIdx' = 1
  /\ finalVideos' = <<>>
  /\ runs' = runs + 1
  /\ caught' = FALSE
  /\ attempts' = 0
  /\ invoked' = {}
  /\ ideationFailed' = FALSE
  /\ succeeded' = [k \in 1..SelectCount |-> {}]
  /\ processed' = {}
  /\ stageOutputs' = [k \in OutputKeys |-> Absent]
  /\ errors' = <<>>
  /\ UNCHANGED <<cfgVars, fsVars, waited, frameVars, currentStage, status,
                 errorsTruncated, endTimeSet, file>>

\* lines 119-122: run assigns state.topic and leaves the rest of the state
StartRun(t) ==
  /\ topic' = t
  /\ writes' = 0
  /\ lifecycle' = <<"pipeline:start">>
  /\ pc' = "emitPipelineStart"
  /\ stageArg' = ""
  /\ result' = NoResult
  /\ selectedIdeas' = <<>>
  /\ selIdx' = 1
  /\ directionResults' = <<>>
  /\ procIdx' = 1
  /\ finalVideos' = <<>>
  /\ runs' = runs + 1
  /\ caught' = FALSE
  /\ attempts' = 0
  /\ invoked' = {}
  /\ ideationFailed' = FALSE
  /\ succeeded' = [k \in 1..SelectCount |-> {}]
  /\ processed' = {}
  /\ UNCHANGED <<cfgVars, fsVars, waited, frameVars, currentStage, status, stageOutputs, errors,
                 errorsTruncated, endTimeSet, file>>

Run(t) ==
  /\ pc = "idle"
  /\ StartRun(t)

\* run(topic) called again on the same orchestrator after a run has ended:
\* run() re-initialises nothing but state.topic (line 120)
RunAgain(t) ==
  /\ pc \in {"returned", "thrown"}
  /\ runs < MaxRuns
  /\ StartRun(t)

\* emit('pipeline:start') returns; run enters try and calls runStage
PipelineStartDelivered ==
  /\ pc = "emitPipelineStart"
  /\ CallRunStage("ideation")

\* a listener of 'pipeline:start' throws: emit is outside try
PipelineStartListenerThrows ==
  /\ pc = "emitPipelineStart"
  /\ pc' = "thrown"
  /\ UNCHANGED <<cfgVars, lifecycle, writes, fsVars, waited, frameVars, stateVars, file, stageArg, result, loopVars, obsVars>>

(***************************************************************************)
(* runStage(stageId, inputs), lines 243-302.                               *)
(***************************************************************************)
\* lines 244-250: the stage exists; the cursor is set, 'stage:start' emitted
RunStageEnter ==
  /\ pc = "runStage"
  /\ stageArg \in cfg.stages
  /\ currentStage' = stageArg
  /\ pc' = "emitStageStart"
  /\ UNCHANGED <<cfgVars, lifecycle, writes, fsVars, waited, frameVars, topic, status, stageOutputs, errors, errorsTruncated,
                 endTimeSet, file, stageArg, result, loopVars, obsVars>>

\* lines 245-247: throw new Error('Stage not found')
RunStageNotFound ==
  /\ pc = "runStage"
  /\ stageArg \notin cfg.stages
  /\ Raise

\* emit('stage:start') returns (runStage, runTTS, assembleVideo)
StageStartDelivered ==
  /\ pc = "emitStageStart"
  /\ pc' = "execute"
  /\ UNCHANGED <<cfgVars, lifecycle, writes, fsVars, waited, frameVars, stateVars, file, stageArg, result, loopVars, obsVars>>

\* a listener of 'stage:start' throws: the emit is outside the function's try
StageStartListenerThrows ==
  /\ pc = "emitStageStart"
  /\ Raise

\* lines 255-277 with stage.agent = 'none': outputs = {}
AgentNone ==
  /\ pc = "execute"
  /\ stageArg \in AgentStages
  /\ cfg.agentOf[stageArg] = "none"
  /\ stageOutputs' = [stageOutputs EXCEPT ![stageArg] = EmptyOutputs]
  /\ result' = SuccessResult(EmptyOutputs)
  /\ pc' = "emitStageComplete"
  /\ UNCHANGED <<cfgVars, lifecycle, writes, fsVars, waited, frameVars, topic, currentStage, status, errors, errorsTruncated,
                 endTimeSet, file, stageArg, loopVars, obsVars>>

\* lines 258-261 and 279-293: no handle for stage.agent
AgentNotFound ==
  /\ pc = "execute"
  /\ stageArg \in AgentStages
  /\ cfg.agentOf[stageArg] # "none"
  /\ cfg.agentOf[stageArg] \notin agents
  /\ PushError(stageArg)
  /\ result' = FailureResult
  /\ pc' = "emitStageError"
  /\ UNCHANGED <<cfgVars, lifecycle, writes, fsVars, waited, frameVars, topic, currentStage, status, stageOutputs, endTimeSet,
                 file, stageArg, loopVars, obsVars>>

\* lines 263-274: agent.execute(inputs) returns outputs
AgentReturns ==
  /\ pc = "execute"
  /\ waited' = 0
  /\ stageArg \in AgentStages
  /\ cfg.agentOf[stageArg] \in agents
  /\ \E o \in AgentOutputs(stageArg, cfg.agentOf[stageArg]) :
       /\ stageOutputs' = [stageOutputs EXCEPT ![stageArg] = o]
       /\ result' = SuccessResult(o)
  /\ attempts' = Min(attempts + 1, MaxAttempts)
  /\ pc' = "emitStageComplete"
  /\ UNCHANGED <<cfgVars, lifecycle, writes, fsVars, frameVars, topic, currentStage, status, errors, errorsTruncated,
                 endTimeSet, file, stageArg, loopVars, runs, caught, invoked,
                 ideationFailed, succeeded, processed>>

\* lines 263 and 279-293: agent.execute(inputs) throws
AgentThrows ==
  /\ pc = "execute"
  /\ waited' = 0
  /\ stageArg \in AgentStages
  /\ cfg.agentOf[stageArg] \in agents
  /\ PushError(stageArg)
  /\ result' = FailureResult
  /\ attempts' = Min(attempts + 1, MaxAttempts)
  /\ pc' = "emitStageError"
  /\ UNCHANGED <<cfgVars, lifecycle, writes, fsVars, frameVars, topic, currentStage, status, stageOutputs, endTimeSet,
                 file, stageArg, loopVars, runs, caught, invoked,
                 ideationFailed, succeeded, processed>>

\* lines 263, 342, 387: the awaited agent or service call has not settled
\* yet; nothing in the orchestrator reads the stage's timeout
CallPending ==
  /\ pc = "execute"
  /\ \/ stageArg \in InlineStages
     \/ (stageArg \in AgentStages /\ cfg.agentOf[stageArg] \in agents)
  /\ waited < MaxWait
  /\ waited' = waited + 1
  /\ UNCHANGED <<cfgVars, lifecycle, writes, fsVars, frameVars, stateVars, file, pc, stageArg, result, loopVars,
                 obsVars>>

\* an assembler that returns without having looked for its input files
ServiceReturnsUnchecked ==
  /\ pc = "execute"
  /\ waited' = 0
  /\ stageArg \in InlineStages
  /\ muxIssued' = (stageArg = "final-assembly")
  /\ result' = SuccessResult(Bundle(TRUE, Subject, 0, <<>>))
  /\ pc' = "emitStageComplete"
  /\ UNCHANGED <<cfgVars, lifecycle, writes, missingPath, frameVars, stateVars, file, stageArg,
                 loopVars, obsVars>>

\* runTTS lines 341-351, assembleVideo lines 386-398: the service returns;
\* the assembler returns (part_001 lines 50-82) only past both existsSync
\* checks and after combineVideoAudio has run
ServiceReturns ==
  /\ pc = "execute"
  /\ waited' = 0
  /\ stageArg \in InlineStages
  /\ stageArg = "final-assembly" => missingPath = "none"
  /\ muxIssued' = (stageArg = "final-assembly")
  /\ result' = SuccessResult(Bundle(TRUE, Subject, 0, <<>>))
  /\ pc' = "emitStageComplete"
  /\ UNCHANGED <<cfgVars, lifecycle, writes, missingPath, frameVars, stateVars, file, stageArg, loopVars, obsVars>>

\* runTTS lines 356-362, assembleVideo lines 403-409: the service throws;
\* the assembler throws at an existsSync check (part_001 lines 58-63), in
\* getMediaDuration before muxing, or in or after combineVideoAudio
ServiceThrows ==
  /\ pc = "execute"
  /\ waited' = 0
  /\ stageArg \in InlineStages
  /\ muxIssued' \in (IF stageArg = "final-assembly" /\ missingPath = "none"
                       THEN BOOLEAN
                       ELSE {FALSE})
  /\ result' = FailureResult
  /\ pc' = "emitStageError"
  /\ UNCHANGED <<cfgVars, lifecycle, writes, missingPath, frameVars, stateVars, file, stageArg, loopVars, obsVars>>

\* emit('stage:complete') returns; the function returns its success result
StageCompleteDelivered ==
  /\ pc = "emitStageComplete"
  /\ pc' = "stageReturned"
  /\ animationResult' = IF stageArg = "animation" THEN result
                                                    ELSE animationResult
  /\ succeeded' = IF stageArg \in BranchStages
                    THEN [succeeded EXCEPT ![CurrentIdea] = @ \cup {stageArg}]
                    ELSE succeeded
  /\ UNCHANGED <<cfgVars, lifecycle, writes, fsVars, waited, inputs, stateVars, file, stageArg, result, loopVars, runs,
                 caught, attempts, invoked, ideationFailed, processed>>

\* a listener of 'stage:complete' throws inside the function's try: its catch
\* block builds a failure result (runStage also records an error)
StageCompleteListenerThrows ==
  /\ pc = "emitStageComplete"
  /\ IF stageArg \in AgentStages
       THEN PushError(stageArg)
       ELSE UNCHANGED <<errors, errorsTruncated>>
  /\ result' = FailureResult
  /\ pc' = "emitStageError"
  /\ UNCHANGED <<cfgVars, lifecycle, writes, fsVars, waited, frameVars, topic, currentStage, status, stageOutputs, endTimeSet,
                 file, stageArg, loopVars, obsVars>>

\* lines 293-298: emit('stage:error') returns and the stage is run again
RunStageRetry ==
  /\ pc = "emitStageError"
  /\ stageArg \in AgentStages
  /\ ShouldRetry(stageArg)
  /\ pc' = "runStage"
  /\ result' = NoResult
  /\ UNCHANGED <<cfgVars, lifecycle, writes, fsVars, waited, frameVars, stateVars, file, stageArg, loopVars, obsVars>>

\* emit('stage:error') returns and the function returns its failure result
StageErrorDelivered ==
  /\ pc = "emitStageError"
  /\ stageArg \in AgentStages => ~ShouldRetry(stageArg)
  /\ pc' = "stageReturned"
  /\ animationResult' = IF stageArg = "animation" THEN result
                                                    ELSE animationResult
  /\ ideationFailed' = (ideationFailed \/ stageArg = "ideation")
  /\ UNCHANGED <<cfgVars, lifecycle, writes, fsVars, waited, inputs, stateVars, file, stageArg, result, loopVars, runs,
                 caught, attempts, invoked, succeeded, processed>>

\* a listener of 'stage:error' throws out of the function's catch block
StageErrorListenerThrows ==
  /\ pc = "emitStageError"
  /\ Raise

(***************************************************************************)
(* run, lines 125-153: what follows each stage result.                     *)
(***************************************************************************)
\* lines 126-131: a failed ideation throws 'Ideation failed'; selectIdeas
\* throws on outputs without an ideas array
AfterIdeation ==
  /\ pc = "stageReturned"
  /\ stageArg = "ideation"
  /\ IF ~result.success \/ ~result.outputs.payload
       THEN ToRunCatch
       ELSE /\ selectedIdeas' = SelectIdeas(interactive, result.outputs.count)
            /\ pc' = "directionLoop"
            /\ UNCHANGED <<cfgVars, lifecycle, writes, fsVars, waited, frameVars, stateVars, file, stageArg, result, selIdx,
                           directionResults, procIdx, finalVideos, obsVars>>

\* lines 135-139: the next selected idea goes to the direction stage
DirectionNext ==
  /\ pc = "directionLoop"
  /\ selIdx <= Len(selectedIdeas)
  /\ CallRunStage("direction")

\* lines 140-143: a successful direction result is unpacked and kept
AfterDirection ==
  /\ pc = "stageReturned"
  /\ stageArg = "direction"
  /\ IF result.success /\ ~result.outputs.payload
       THEN ToRunCatch
       ELSE /\ directionResults' =
                 IF result.success
                   THEN Append(directionResults, result.outputs.idea)
                   ELSE directionResults
            /\ selIdx' = selIdx + 1
            /\ pc' = "directionLoop"
            /\ UNCHANGED <<cfgVars, lifecycle, writes, fsVars, waited, frameVars, stateVars, file, stageArg, result,
                           selectedIdeas, procIdx, finalVideos, obsVars>>

\* line 143 to 147: the direction loop is over
DirectionLoopDone ==
  /\ pc = "directionLoop"
  /\ selIdx > Len(selectedIdeas)
  /\ pc' = "processLoop"
  /\ UNCHANGED <<cfgVars, lifecycle, writes, fsVars, waited, frameVars, stateVars, file, stageArg, result, loopVars, obsVars>>

\* lines 147-149 and 186-194: processVideo is called for the next plan
ProcessVideoCall ==
  /\ pc = "processLoop"
  /\ procIdx <= Len(directionResults)
  /\ CallRunStage("animation")

(***************************************************************************)
(* processVideo, lines 185-238.                                            *)
(***************************************************************************)
\* lines 196-205
AfterAnimation ==
  /\ pc = "stageReturned"
  /\ stageArg = "animation"
  /\ IF ~result.success \/ ~result.outputs.payload
       THEN BranchReturn(FALSE)
       ELSE CallRunStage("voice-script")

\* lines 207-213
AfterVoiceScript ==
  /\ pc = "stageReturned"
  /\ stageArg = "voice-script"
  /\ IF ~result.success
       THEN BranchReturn(FALSE)
       ELSE CallInline("voice-synthesis")

\* lines 215-225
AfterTTS ==
  /\ pc = "stageReturned"
  /\ stageArg = "voice-synthesis"
  /\ IF ~result.success \/ ~result.outputs.payload
       THEN BranchReturn(FALSE)
       ELSE CallInline("final-assembly")

\* lines 228-232: critique is run for a successful assembly when enabled;
\* the function returns assemblyResult.outputs (undefined after a failure)
AfterAssembly ==
  /\ pc = "stageReturned"
  /\ stageArg = "final-assembly"
  /\ IF cfg.enableCritique /\ result.success
       THEN /\ pc' = "critique"
            /\ UNCHANGED <<cfgVars, lifecycle, writes, fsVars, waited, frameVars, stateVars, file, stageArg, result,
                           loopVars, obsVars>>
       ELSE BranchReturn(result.hasOutputs)

(***************************************************************************)
(* runCritique, lines 419-438.                                             *)
(***************************************************************************)
\* lines 420-423: no critique agent is registered
CritiqueSkipped ==
  /\ pc = "critique"
  /\ cfg.critiqueAgent \notin agents
  /\ BranchReturn(result.hasOutputs)

\* lines 426-430: the inputs runCritique gives the critique agent: the video
\* path it was called with, and state.stageOutputs.direction and
\* state.stageOutputs['voice-script'] as they are at that moment
CritiqueInputs ==
  <<Input("final-assembly", result.outputs.idea),
    Input("direction", stageOutputs["direction"].idea),
    Input("voice-script", stageOutputs["voice-script"].idea)>>

\* a critique failure that discards the branch
CritiqueThrowsDropsArtifact ==
  /\ pc = "critique"
  /\ cfg.critiqueAgent \in agents
  /\ BranchReturn(FALSE)

\* lines 426-433: the agent is given the video path and the direction and
\* voice-script bundles of the run state; its critique is recorded
CritiqueReturns ==
  /\ pc = "critique"
  /\ cfg.critiqueAgent \in agents
  /\ inputs' = CritiqueInputs
  /\ stageOutputs' =
       [stageOutputs EXCEPT
          !["critique"] = Bundle(TRUE, stageOutputs["direction"].idea, 0, <<>>)]
  /\ invoked' = invoked \cup {"critique"}
  /\ pc' = "emitCritiqueComplete"
  /\ UNCHANGED <<cfgVars, lifecycle, writes, fsVars, waited, animationResult, topic, currentStage, status, errors, errorsTruncated,
                 endTimeSet, file, stageArg, result, loopVars, runs, caught,
                 attempts, ideationFailed, succeeded, processed>>

\* lines 426 and 435-437: the agent throws; the error is logged
CritiqueThrows ==
  /\ pc = "critique"
  /\ cfg.critiqueAgent \in agents
  /\ invoked' = invoked \cup {"critique"}
  /\ inputs' = CritiqueInputs
  /\ pc' = "critiqueReturned"
  /\ UNCHANGED <<cfgVars, lifecycle, writes, fsVars, waited, animationResult, stateVars, file, stageArg, result, loopVars, runs,
                 caught, attempts, ideationFailed, succeeded, processed>>

\* line 433: emit('critique:complete') returns, or a listener throws and the
\* catch block of runCritique logs it
CritiqueCompleteEmitted ==
  /\ pc = "emitCritiqueComplete"
  /\ pc' = "critiqueReturned"
  /\ UNCHANGED <<cfgVars, lifecycle, writes, fsVars, waited, frameVars, stateVars, file, stageArg, result, loopVars, obsVars>>

\* line 232: return assemblyResult.outputs
AfterCritique ==
  /\ pc = "critiqueReturned"
  /\ BranchReturn(result.hasOutputs)

(***************************************************************************)
(* run, lines 155-180.                                                     *)
(***************************************************************************)
\* the final update without the assignment of line 158
FinalUpdateUnrecorded ==
  /\ pc = "processLoop"
  /\ procIdx > Len(directionResults)
  /\ endTimeSet' = TRUE
  /\ status' = FinalStatus(finalVideos)
  /\ pc' = "emitPipelineComplete"
  /\ lifecycle' = Append(lifecycle, "pipeline:complete")
  /\ UNCHANGED <<cfgVars, writes, fsVars, waited, frameVars, topic, currentStage, stageOutputs, errors,
                 errorsTruncated, file, stageArg, result, loopVars, obsVars>>

\* lines 155-158
FinalUpdate ==
  /\ pc = "processLoop"
  /\ procIdx > Len(directionResults)
  /\ endTimeSet' = TRUE
  /\ status' = FinalStatus(finalVideos)
  /\ stageOutputs' =
       [stageOutputs EXCEPT !["finalVideos"] = Bundle(TRUE, 0, 0, finalVideos)]
  /\ pc' = "emitPipelineComplete"
  /\ lifecycle' = Append(lifecycle, "pipeline:complete")
  /\ UNCHANGED <<cfgVars, writes, fsVars, waited, frameVars, topic, currentStage, errors, errorsTruncated, file,
                 stageArg, result, loopVars, obsVars>>

\* lines 160-163: emit('pipeline:complete') returns
PipelineCompleteDelivered ==
  /\ pc = "emitPipelineComplete"
  /\ pc' = "saveState"
  /\ UNCHANGED <<cfgVars, lifecycle, writes, fsVars, waited, frameVars, stateVars, file, stageArg, result, loopVars, obsVars>>

\* lines 160-163: the videos field of the 'pipeline:complete' payload
CompleteEventVideos == finalVideos

\* generateEducationalVideo, part_005 lines 238-246: the videos it returns
\* for the state run returned (none with a status other than completed)
GeneratedVideos ==
  IF status = "completed" /\ stageOutputs["finalVideos"].present
    THEN stageOutputs["finalVideos"].videos
    ELSE <<>>

\* part_005 line 244: errors.map(e => `${e.stage}: ${e.error}`).join('; '),
\* as the sequence of the joined parts; the empty string is <<>>
JoinErrors == [i \in 1..Len(errors) |-> errors[i].stage]

\* part_005 lines 247-249: { success: false, error: error.message }
ApiCatch ==
  [returned |-> TRUE, thrown |-> FALSE, success |-> FALSE, videos |-> <<>>,
   error |-> <<"message">>]

\* part_005 lines 221-236: new ConfigLoader, applyPreset, setVideoDuration or
\* save throws before runVideoPipeline is called
OverridesThrow ==
  /\ pc = "constructor"
  /\ pc' = "overridesThrown"
  /\ UNCHANGED <<cfg, interactive, agents, ctorError, video, loaderVars,
                 agentVars, writes, lifecycle, fsVars, stateVars, file,
                 stageArg, result, waited, frameVars, loopVars, obsVars>>

\* part_005 lines 238-246: runVideoPipeline returned the run state
GenerateEducationalVideoReturns ==
  /\ pc = "returned"
  /\ ~apiResult.returned
  /\ apiResult' =
       IF status = "completed"
         THEN [returned |-> TRUE, thrown |-> FALSE, success |-> TRUE,
               videos |-> GeneratedVideos, error |-> <<>>]
         ELSE [returned |-> TRUE, thrown |-> FALSE, success |-> FALSE,
               videos |-> <<>>, error |-> JoinErrors]
  /\ UNCHANGED <<loaderVars, pipelineVars, codingVars, historyVars>>

\* part_005 lines 213 and 247-249: the overrides, the constructor or run
\* threw; the catch block returns the failure
GenerateEducationalVideoCatches ==
  /\ pc \in {"overridesThrown", "constructorThrown", "thrown"}
  /\ ~apiResult.returned
  /\ apiResult' = ApiCatch
  /\ UNCHANGED <<loaderVars, pipelineVars, codingVars, historyVars>>

\* a listener of 'pipeline:complete' throws inside try
PipelineCompleteListenerThrows ==
  /\ pc = "emitPipelineComplete"
  /\ ToRunCatch

\* line 175: emit('pipeline:error') returns
PipelineErrorDelivered ==
  /\ pc = "emitPipelineError"
  /\ pc' = "saveState"
  /\ UNCHANGED <<cfgVars, lifecycle, writes, fsVars, waited, frameVars, stateVars, file, stageArg, result, loopVars, obsVars>>

\* a listener of 'pipeline:error' throws out of run's catch block
PipelineErrorListenerThrows ==
  /\ pc = "emitPipelineError"
  /\ pc' = "thrown"
  /\ UNCHANGED <<cfgVars, lifecycle, writes, fsVars, waited, frameVars, stateVars, file, stageArg, result, loopVars, obsVars>>

\* run returns without writing the state file
SaveStateSkipped ==
  /\ pc = "saveState"
  /\ pc' = "returned"
  /\ UNCHANGED <<cfgVars, lifecycle, writes, fsVars, waited, frameVars, stateVars, file, stageArg, result, loopVars, obsVars>>

\* saveState, lines 443-446, then line 179: return this.state
SaveState ==
  /\ pc = "saveState"
  /\ file' = Serialize
  /\ writes' = Min(writes + 1, MaxWrites)
  /\ pc' = "returned"
  /\ UNCHANGED <<cfgVars, lifecycle, fsVars, waited, frameVars, stateVars, stageArg, result, loopVars, obsVars>>

\* saveState, lines 443-446, called once more after run has returned, with
\* the run state as run left it
SaveStateAgain ==
  /\ pc = "returned"
  /\ writes >= 1
  /\ writes < MaxWrites
  /\ file' = Serialize
  /\ writes' = writes + 1
  /\ UNCHANGED <<cfgVars, lifecycle, fsVars, waited, frameVars, stateVars, ctlVars, loopVars,
                 obsVars>>

\* JSON.stringify or writeFileSync throws at line 166, inside try
SaveStateFailsInTry ==
  /\ pc = "saveState"
  /\ ~caught
  /\ ToRunCatch

\* JSON.stringify or writeFileSync throws at line 176, inside the catch block
SaveStateFailsInCatch ==
  /\ pc = "saveState"
  /\ caught
  /\ pc' = "thrown"
  /\ UNCHANGED <<cfgVars, lifecycle, writes, fsVars, waited, frameVars, stateVars, file, stageArg, result, loopVars, obsVars>>

(***************************************************************************)
(* Specifications.                                                         *)
(***************************************************************************)
\* every collaborator returns or throws; every listener returns; the state
\* file can be written
NextCore ==
  \/ ConstructorThrows
  \/ Constructor
  \/ \E t \in Topics : Run(t)
  \/ PipelineStartDelivered
  \/ RunStageEnter
  \/ RunStageNotFound
  \/ StageStartDelivered
  \/ AgentNone
  \/ AgentNotFound
  \/ AgentReturns
  \/ AgentThrows
  \/ CallPending
  \/ ServiceReturns
  \/ ServiceThrows
  \/ StageCompleteDelivered
  \/ RunStageRetry
  \/ StageErrorDelivered
  \/ AfterIdeation
  \/ DirectionNext
  \/ AfterDirection
  \/ DirectionLoopDone
  \/ ProcessVideoCall
  \/ AfterAnimation
  \/ AfterVoiceScript
  \/ AfterTTS
  \/ AfterAssembly
  \/ CritiqueSkipped
  \/ CritiqueReturns
  \/ CritiqueThrows
  \/ CritiqueCompleteEmitted
  \/ AfterCritique
  \/ FinalUpdate
  \/ PipelineCompleteDelivered
  \/ PipelineErrorDelivered
  \/ SaveState

\* a listener throws out of emit; the state file cannot be written
NextFault ==
  \/ PipelineStartListenerThrows
  \/ StageStartListenerThrows
  \/ StageCompleteListenerThrows
  \/ StageErrorListenerThrows
  \/ PipelineCompleteListenerThrows
  \/ PipelineErrorListenerThrows
  \/ SaveStateFailsInTry
  \/ SaveStateFailsInCatch

Next == NextCore \/ NextFault

Spec == Init /\ [][Next]_vars

\* an orchestrator whose run method is called up to MaxRuns times, with no
\* retried stage, no critique and the interactive selection (at most two
\* branches a run); calls settle without being watched
RerunInit ==
  /\ Init
  /\ cfg = [defaultPipelineConfig EXCEPT !.retryOnFailure = {},
                                         !.enableCritique = FALSE]
  /\ interactive

RerunNext ==
  \/ Constructor
  \/ \E t \in Topics : Run(t)
  \/ \E t \in Topics : RunAgain(t)
  \/ PipelineStartDelivered
  \/ RunStageEnter
  \/ StageStartDelivered
  \/ AgentReturns
  \/ AgentThrows
  \/ ServiceReturns
  \/ ServiceThrows
  \/ StageCompleteDelivered
  \/ StageErrorDelivered
  \/ AfterIdeation
  \/ DirectionNext
  \/ AfterDirection
  \/ DirectionLoopDone
  \/ ProcessVideoCall
  \/ AfterAnimation
  \/ AfterVoiceScript
  \/ AfterTTS
  \/ AfterAssembly
  \/ FinalUpdate
  \/ PipelineCompleteDelivered
  \/ PipelineErrorDelivered
  \/ SaveState

RerunSpec == RerunInit /\ [][RerunNext]_vars

\* listeners that never throw, and a state file that cannot always be written
DiskFaultNext == NextCore \/ SaveStateFailsInTry \/ SaveStateFailsInCatch

DiskFaultSpec == Init /\ [][DiskFaultNext]_vars

\* a run, and saveState called again after it
PersistNext == Next \/ SaveStateAgain

PersistSpec == Init /\ [][PersistNext]_vars

\* generateEducationalVideo: the listeners are those of runVideoPipeline
\* (lines 473-490, console output only); the state file may fail to be
\* written
ApiNext ==
  \/ DiskFaultNext
  \/ OverridesThrow
  \/ GenerateEducationalVideoReturns
  \/ GenerateEducationalVideoCatches

ApiSpec == Init /\ [][ApiNext]_vars

\* one call of CodingAgent.execute
CodingInit == Init /\ cfg = defaultPipelineConfig /\ ~interactive

CodingNext ==
  \/ ExecuteThrows
  \/ ExecuteEnters
  \/ LoopIterates
  \/ LoopExhausted
  \/ GenerateReturns
  \/ FixReturns
  \/ StepThrows
  \/ SaveReturns
  \/ RenderSucceeds
  \/ RenderFails

CodingSpec == CodingInit /\ [][CodingNext]_vars

\* an agent with or without a system prompt, and the calls made on it
HistoryInit ==
  /\ InitFrom({defaultVideo}, BOOLEAN)
  /\ cfg = defaultPipelineConfig
  /\ ~interactive

HistoryNext == SendMessageReturns \/ SendMessageThrows \/ Reset

HistorySpec == HistoryInit /\ [][HistoryNext]_vars

\* construction from every configuration and every video setting
ValidateInit == InitFrom(VideoConfigs, {TRUE})

ValidateNext == ConstructorThrows \/ Constructor

ValidateSpec == ValidateInit /\ [][ValidateNext]_vars

\* the loaders' operations, for the default configuration
LoaderInit == Init /\ cfg = defaultPipelineConfig /\ ~interactive

LoaderNext ==
  \/ \E l \in Loaders : NewConfigLoader(l)
  \/ \E l \in Callers, d \in Durations : SetVideoDuration(l, d)
  \/ \E l \in Callers, p \in DOMAIN presets : ApplyPreset(l, p)
  \/ \E l \in Callers, m \in Models : SetAgentModel(l, m)
  \/ \E l \in Callers, d \in Durations : CreateConfigFromEnv(l, d)

LoaderSpec == LoaderInit /\ [][LoaderNext]_vars

\* the event loop resumes run after every call that settles
FairSpec == Init /\ [][NextCore]_vars /\ WF_vars(NextCore)

(***************************************************************************)
(* Claims.                                                                 *)
(***************************************************************************)
Range(q) == {q[i] : i \in 1..Len(q)}

\* the branches whose five stages all returned a success result
SucceededBranches == {k \in 1..SelectCount : succeeded[k] = BranchStages}

\* C1: every call of run eventually returns, and the returned run state has
\* a terminal status (completed or failed), provided every collaborator call
\* returns or fails.
C1_RunReturnsTerminal ==
  (pc = "emitPipelineStart") ~> (pc = "returned" /\ status \in Terminal)

\* C2: run never propagates an exception to its caller: whatever is thrown
\* while run executes, the call ends by returning the run state.
C2_RunNeverThrows == pc # "thrown"

\* C3: retries are bounded: a request to a stage that declares
\* retryOnFailure eventually returns a result to its caller, even when the
\* agent fails on every invocation (it is not retried forever).
C3_RetriesBounded ==
  (pc = "execute" /\ stageArg \in cfg.retryOnFailure) ~> (pc = "stageReturned")

\* C4: when run returns, status is completed if and only if the final
\* artifact list holds at least one entry.
C4_CompletedIffArtifact ==
  pc = "returned" =>
    (status = "completed" <=> Len(stageOutputs["finalVideos"].videos) > 0)

C6_IdeationFailureEndsRun ==
  ideationFailed =>
    /\ invoked \cap (BranchStages \cup {"critique"}) = {}
    /\ (pc # "stageReturned" => status = "failed")
    /\ selectedIdeas = <<>>

\* ideation returned a failure result and run has returned
C6_Witness == ideationFailed /\ pc = "returned" /\ status = "failed"

\* C7: a failure at a stage of one branch does not keep the other branches
\* from being run: whenever a stage of one branch fails, every other branch
\* whose direction succeeded and whose processVideo call has not returned
\* eventually has its own stages run (it is the branch being processed) or
\* has been processed.
C7_SiblingsStillRun ==
  \A k \in 1..SelectCount :
    (/\ pc = "emitStageError"
     /\ stageArg \in BranchStages
     /\ CurrentIdea # k
     /\ k \in Range(directionResults)
     /\ k \notin processed)
      ~> (\/ k \in processed
          \/ (stageArg \in BranchStages \ {"direction"} /\ CurrentIdea = k))

\* C8: whenever run returns, the state file holds the serialization of the
\* run state that is returned (same status, errors and stage outputs), so a
\* write precedes every return.
C8_ReturnedStateIsPersisted ==
  pc = "returned" => (file = Serialize /\ file # NoFile)

\* run has returned through its catch block with errors recorded
C8_Witness ==
  pc = "returned" /\ caught /\ file.status = "failed" /\ Len(file.errors) > 0

\* C9: a run that ends with status failed has a non-empty errors sequence,
\* in the returned and in the persisted state.
C9_FailedRunHasErrors ==
  (pc = "returned" /\ status = "failed") =>
    (Len(errors) > 0 /\ Len(file.errors) > 0)

\* C10: the status only ever changes from running to completed or failed; a
\* terminal status never changes again and cancelled is never taken.
C10_StatusOneWay ==
  [][status' # status => (status = "running" /\ status' \in Terminal)]_vars

\* C11: endTime is set exactly when the status is terminal: unset while the
\* status is running, set whenever the status is completed or failed.
C11_EndTimeIffTerminal == endTimeSet <=> status \in Terminal

\* the agent ids a configuration's stages name that are neither 'none' nor
\* the id of an entry of agents
MissingAgents(c) ==
  {c.agentOf[s] : s \in {x \in c.stages : c.agentOf[x] \notin c.agents \cup {"none"}}}

\* C12: for a configuration in which some stage names an agent that is neither
\* 'none' nor an entry of agents, construction throws before any stage is
\* invoked, the message names every missing agent id, and run is never
\* called.
C12_InvalidConfigRejected ==
  MissingAgents(cfg) # {} =>
    /\ pc \in {"constructor", "constructorThrown"}
    /\ runs = 0
    /\ invoked = {}
    /\ agents = {}
    /\ (pc = "constructorThrown" =>
          {e[2] : e \in ctorError} = MissingAgents(cfg))

\* construction has thrown, and the message names missing-agent
C12_Witness ==
  /\ pc = "constructorThrown"
  /\ <<"animation", "missing-agent">> \in ctorError

\* C13: with a configuration accepted by validation, runStage never reaches
\* the 'Agent not found' condition: the agent of the stage it executes is
\* 'none' or has a handle in the registry.
C13_AgentAlwaysFound ==
  (pc = "execute" /\ stageArg \in AgentStages) =>
    (cfg.agentOf[stageArg] = "none" \/ cfg.agentOf[stageArg] \in agents)

\* the stages whose lookup in runStage fails under the configuration: no
\* stage spec for the stage id (line 245), or no registry entry for the
\* stage's agent (line 259)
LookupFails(s) ==
  \/ s \notin cfg.stages
  \/ (cfg.agentOf[s] # "none" /\ cfg.agentOf[s] \notin agents)

\* C14: a missing stage spec or a missing agent handle is fatal at whichever
\* stage it occurs: once runStage has been called for such a stage, no other
\* stage is started in that run, and when run returns its status is failed.
C14_LookupFailureIsFatal ==
  LET failing == {s \in invoked \cap AgentStages : LookupFails(s)}
  IN  failing # {} =>
        /\ (pc = "emitStageStart" => stageArg \in failing)
        /\ (pc = "returned" => status = "failed")

\* C15: no stage invocation keeps the run waiting beyond the stage's
\* configured timeout: while an agent or service call is awaited, the time
\* it has been pending does not exceed the timeout of its stage.
C15_StageTimeoutEnforced ==
  pc = "execute" => waited <= cfg.timeout[stageArg]

\* processVideo has returned for candidate k and the branch went no further
\* than its animation stage: runStage('animation') returned a failure result
\* or threw, or it returned outputs without a video file (line 196)
FailedAtAnimation(k) ==
  /\ k \in processed
  /\ \/ succeeded[k] = {"direction"}
     \/ /\ succeeded[k] = {"direction", "animation"}
        /\ stageOutputs["animation"] = Bundle(FALSE, k, 0, <<>>)

\* C16: in a non-interactive run where ideation returned 5 candidates, the
\* first 3 were selected, two branches completed all their stages and one
\* failed at the animation stage, run returns status completed, a final
\* artifact list of length 2, and exactly one error record, whose stage is
\* animation.
C16_TwoOfThreeScenario ==
  (/\ pc = "returned"
   /\ ~interactive
   /\ stageOutputs["ideation"].count = 5
   /\ selectedIdeas = <<1, 2, 3>>
   /\ Cardinality(SucceededBranches) = 2
   /\ \E k \in 1..3 : FailedAtAnimation(k))
    => /\ status = "completed"
       /\ Len(stageOutputs["finalVideos"].videos) = 2
       /\ errors = <<[stage |-> "animation"]>>

\* C17: every step in which a stage invocation fails (its function builds a
\* failure result) appends exactly one error record carrying that stage's id
\* and changes no other field of the run state.
C17_FailureAppendsOneError ==
  [][(pc # "emitStageError" /\ pc' = "emitStageError" /\ Len(errors) < MaxErrors)
       => /\ ~result'.success
          /\ errors' = Append(errors, [stage |-> stageArg])
          /\ UNCHANGED <<topic, currentStage, status, stageOutputs, endTimeSet>>]_vars

\* C18: whenever a stage function returns a success result, the outputs of
\* that result are recorded in stageOutputs under the stage's id.
C18_SuccessOutputsRecorded ==
  (pc = "stageReturned" /\ result.success) =>
    (stageOutputs[stageArg].present /\ stageOutputs[stageArg] = result.outputs)

\* the order of the stages of one branch
StageOrder ==
  <<"ideation", "direction", "animation", "voice-script", "voice-synthesis",
    "final-assembly">>

StagePos(s) == CHOOSE i \in 1..Len(StageOrder) : StageOrder[i] = s

\* C19: within a branch the stages run in the order direction, animation,
\* voice-script, voice-synthesis, final-assembly: while a stage function is
\* executing for a candidate, the previous stage of that candidate has
\* returned a success result, and every input of the call was taken from the
\* output of an earlier stage that succeeded for that same candidate.
C19_BranchStagesInOrder ==
  (pc \in {"runStage", "emitStageStart", "execute"} /\ stageArg \in BranchStages)
    => /\ CurrentIdea \in 1..SelectCount
       /\ Len(inputs) > 0
       /\ (stageArg # "direction" =>
             StageOrder[StagePos(stageArg) - 1] \in succeeded[CurrentIdea])
       /\ \A i \in 1..Len(inputs) :
            /\ inputs[i].idea = CurrentIdea
            /\ StagePos(inputs[i].from) < StagePos(stageArg)
            /\ IF inputs[i].from = "ideation"
                 THEN /\ stageOutputs["ideation"].payload
                      /\ inputs[i].idea <= stageOutputs["ideation"].count
                 ELSE inputs[i].from \in succeeded[CurrentIdea]

\* final assembly is executing for the second selected candidate
C19_Witness ==
  /\ pc = "execute"
  /\ stageArg = "final-assembly"
  /\ Len(selectedIdeas) = 3
  /\ CurrentIdea = 2
  /\ inputs = <<Input("animation", 2), Input("voice-synthesis", 2)>>

\* a branch has started (its direction stage succeeded) and processVideo has
\* not returned for it yet
BranchOpen(k) == "direction" \in succeeded[k] /\ k \notin processed

\* C20: branches run one at a time: while a stage of one branch is being
\* invoked (direction included), no other branch is started and unfinished.
C20_OneBranchAtATime ==
  (pc \in {"runStage", "emitStageStart", "execute"} /\ stageArg \in BranchStages)
    => \A k \in 1..SelectCount : BranchOpen(k) => k = CurrentIdea

\* C21: critique is invoked for a branch only after that branch's final
\* assembly returned success, and it is advisory: whether it returns, throws
\* or has no registered agent, a branch whose final assembly succeeded has
\* its artifact in the list of final videos once processVideo has returned,
\* and critique leaves status and errors as they were.
C21_CritiqueIsAdvisory ==
  /\ pc \in {"critique", "emitCritiqueComplete", "critiqueReturned"} =>
       /\ cfg.enableCritique
       /\ stageArg = "final-assembly"
       /\ result.success
       /\ "final-assembly" \in succeeded[CurrentIdea]
       /\ status = "running"
  /\ \A k \in processed :
       "final-assembly" \in succeeded[k] => k \in Range(finalVideos)
  /\ (pc = "returned" /\ ~caught /\ SucceededBranches # {}) => status = "completed"

\* the critique agent threw for a branch, and the run returned completed
\* with that branch's artifact
C21_Witness ==
  /\ pc = "returned"
  /\ "critique" \in invoked
  /\ ~stageOutputs["critique"].present
  /\ status = "completed"
  /\ Len(stageOutputs["finalVideos"].videos) = 2

\* C22: when critique runs for a branch, the final video, the scene plans
\* and the voice script it is given were all produced for that branch's
\* candidate.
C22_CritiqueInputsOfSameBranch ==
  (pc \in {"emitCritiqueComplete", "critiqueReturned"} /\ "critique" \in invoked)
    => \A i \in 1..Len(inputs) : inputs[i].idea = CurrentIdea

\* C23: branches share no mutable state: an output bundle recorded while one
\* candidate's branch executed is never overwritten while another
\* candidate's branch executes.
C23_NoStateSharedByBranches ==
  [][\A s \in BranchStages :
       (stageOutputs[s].present /\ stageOutputs'[s] # stageOutputs[s])
         => stageOutputs'[s].idea = stageOutputs[s].idea]_vars

\* C24: the configuration the orchestrator holds does not change once it is
\* constructed, and no operation on a caller's ConfigLoader changes the
\* module-level default configuration (its video duration, its agents'
\* models).
C24_ConfigNotSharedOrMutated ==
  [][/\ videoRef["orchestrator"] # "unset" =>
          /\ videoRef'["orchestrator"] = videoRef["orchestrator"]
          /\ heap'[videoRef["orchestrator"]] = heap[videoRef["orchestrator"]]
     /\ heap'["default.video"] = heap["default.video"]
     /\ agentModel' = agentModel]_vars


\* C25: over any sequence of stage invocations and runs of one orchestrator,
\* the error log changes only by records appended at its end, and no key of
\* stageOutputs that has been set is ever removed.
C25_ErrorsAppendOnlyOutputsKept ==
  [][/\ Len(errors') >= Len(errors)
     /\ SubSeq(errors', 1, Len(errors)) = errors
     /\ \A k \in OutputKeys : stageOutputs[k].present => stageOutputs'[k].present]_vars

\* a second run has appended to the log the first run left and has set the
\* final list next to the first run's keys
C25_Witness ==
  /\ runs = 2 /\ pc = "returned" /\ ~caught
  /\ Len(errors) = 3 /\ errors[1].stage = "ideation" /\ errors[3].stage = "animation"
  /\ stageOutputs["finalVideos"].present


\* C26: the state file is written once per run, after the status has become
\* terminal, and what it holds is never changed afterwards, neither by the
\* run that wrote it nor by a later run.
C26_StateFileWrittenOnce ==
  [][/\ file' # file => status \in Terminal
     /\ file # NoFile => file' = file]_vars


\* C27: in non-interactive mode selectIdeas returns exactly the first
\* min(3, n) of the n candidates of the ideation output, in their original
\* order; the selection is a function of the candidate list alone.
C27_FirstThreeSelected ==
  (~interactive /\ pc = "directionLoop") =>
    LET n == stageOutputs["ideation"].count
    IN /\ Len(selectedIdeas) = (IF n < 3 THEN n ELSE 3)
       /\ \A i \in 1..Len(selectedIdeas) : selectedIdeas[i] = i

\* five candidates were offered and the first three were taken
C27_Witness ==
  /\ ~interactive /\ pc = "directionLoop"
  /\ stageOutputs["ideation"].count = 5
  /\ selectedIdeas = <<1, 2, 3>>


\* answers an operator can give at the selection prompt (line 324): a list
\* of candidate numbers, or "all"
Answers ==
  {[all |-> TRUE, indices |-> <<>>]} \cup
  {[all |-> FALSE, indices |-> q] : q \in {<<1>>, <<2>>, <<1, 3>>, <<2, 3>>}}

\* the candidates an answer names, of n candidates
Chosen(a, n) ==
  IF a.all THEN [i \in 1..n |-> i]
           ELSE SelectSeq(a.indices, LAMBDA i : i <= n)

\* C28: in interactive mode the selected candidates are exactly those the
\* external input chooses: whatever the answer at the prompt, a list of
\* indices or "all", the selection is the candidates that answer names.
C28_InteractiveSelectionFollowsInput ==
  (interactive /\ pc = "directionLoop") =>
    \A a \in Answers : selectedIdeas = Chosen(a, stageOutputs["ideation"].count)


\* C29: every artifact reported as produced, in the 'pipeline:complete'
\* event and in the videos generateEducationalVideo returns, is an entry of
\* the final artifact list of the run state, and every entry of that list
\* comes from a final assembly that returned success, for a branch no other
\* entry comes from.
C29_ReportedArtifactsAreFinal ==
  LET final == stageOutputs["finalVideos"].videos
  IN /\ pc = "emitPipelineComplete" => Range(CompleteEventVideos) \subseteq Range(final)
     /\ pc = "returned" => Range(GeneratedVideos) \subseteq Range(final)
     /\ \A i \in 1..Len(final) :
          /\ "final-assembly" \in succeeded[final[i]]
          /\ \A j \in 1..Len(final) : final[j] = final[i] => j = i

\* two artifacts are returned by a completed run of three branches
C29_Witness ==
  /\ pc = "returned" /\ Len(GeneratedVideos) = 2
  /\ Len(selectedIdeas) = 3 /\ processed = {1, 2, 3}


\* C30: whenever the video path or the audio path given to assembleVideo
\* does not exist, the assembler fails with an explicit error before any
\* muxing command is issued, the orchestrator returns a failed final-assembly
\* result, and the branch adds no artifact to the final list.
C30_MissingInputFailsAssembly ==
  /\ [](missingPath # "none" =>
          /\ stageArg = "final-assembly"
          /\ ~muxIssued
          /\ ~result.success
          /\ pc \in {"emitStageStart", "execute", "emitStageError", "stageReturned"}
          /\ pc = "stageReturned" => result.hasError
          /\ CurrentIdea \notin Range(finalVideos))
  /\ [][missingPath # "none" => finalVideos' = finalVideos]_vars

\* assembleVideo has returned its failure result for a missing audio file
C30_Witness ==
  /\ pc = "stageReturned" /\ stageArg = "final-assembly"
  /\ missingPath = "audio" /\ result.hasError /\ ~result.success
  /\ "voice-synthesis" \in succeeded[CurrentIdea]


\* the violations a configuration has: a stage whose agent is neither 'none'
\* nor configured, a duration that is not positive, an fps outside 1..120
\* (2..240 half frames), no output directory
Violations(c, v) ==
  {<<s, c.agentOf[s]>> :
     s \in {x \in c.stages : c.agentOf[x] \notin c.agents \cup {"none"}}} \cup
  (IF v.duration <= 0 THEN {<<"video", "duration">>} ELSE {}) \cup
  (IF v.fps < 2 \/ v.fps > 240 THEN {<<"video", "fps">>} ELSE {}) \cup
  (IF ~v.outputDir THEN {<<"outputDir", "missing">>} ELSE {})

\* C31: validate reports valid exactly when its error list is empty, the
\* list has an entry for every violation of the configuration (missing
\* agent of a stage, non-positive duration, fps outside 1..120, missing
\* output directory), and the constructor refuses exactly the
\* configurations with a violation, naming all of them.
C31_AllViolationsReported ==
  pc \in {"idle", "constructorThrown"} =>
    /\ validate(cfg, video).valid <=> (validate(cfg, video).errors = {})
    /\ validate(cfg, video).errors = Violations(cfg, video)
    /\ pc = "idle" => Violations(cfg, video) = {}
    /\ pc = "constructorThrown" => ctorError = Violations(cfg, video)


\* a stage that declares retryOnFailure and is dispatched to an agent
RetryDeclared(s) ==
  s \in AgentStages /\ s \in cfg.retryOnFailure /\ cfg.agentOf[s] # "none"

C33_OutputsIffSuccess ==
  pc \in {"emitStageComplete", "emitStageError", "stageReturned"} =>
    /\ result.hasOutputs <=> result.success
    /\ result.hasError <=> ~result.success

\* runTTS has returned a failure result and runStage a success result before
C33_Witness ==
  /\ pc = "stageReturned" /\ stageArg = "voice-synthesis"
  /\ ~result.success /\ result.hasError /\ ~result.hasOutputs
  /\ "voice-script" \in succeeded[CurrentIdea]


StagePcs ==
  {"runStage", "emitStageStart", "execute", "emitStageComplete",
   "emitStageError", "stageReturned"}

\* C35: in every run pipeline:start is emitted first; a stage invocation
\* emits stage:start and then exactly one of stage:complete and stage:error
\* before the next stage:start; and exactly one of pipeline:complete and
\* pipeline:error is emitted, after all stage events.
C35_LifecycleProtocol ==
  /\ [](pc \in StagePcs => lifecycle = <<"pipeline:start">>)
  /\ [](pc = "returned" =>
          lifecycle \in {<<"pipeline:start", "pipeline:complete">>,
                         <<"pipeline:start", "pipeline:error">>})
  /\ [][/\ (pc' = "execute" /\ pc # "execute") => pc = "emitStageStart"
        /\ (pc' \in {"emitStageComplete", "emitStageError"} /\ pc' # pc)
             => pc = "execute"]_vars


\* C36: from the moment stage:start is emitted for a stage until the next
\* stage starts, the currentStage cursor of the run state is that stage's
\* id, for the inline voice-synthesis and final-assembly stages as for the
\* stages runStage executes.
C36_CursorNamesStartedStage ==
  pc \in {"emitStageStart", "execute", "emitStageComplete", "emitStageError",
          "stageReturned"}
    => currentStage = stageArg


\* C37: one execute call of the coding agent makes at most 5 render
\* attempts, the first on freshly generated code and each later one on a fix
\* of the previous code with the last error; it returns a video file exactly
\* when an attempt rendered successfully, and after 5 failed attempts it
\* returns with an errors list and no video file.
C37_BoundedRenderLoop ==
  /\ renders <= maxIterations
  /\ codingPc = "render" =>
       IF renders = 1
         THEN animationCode = "initial"
         ELSE /\ animationCode = "fixed"
              /\ fixArgs[1] \in {"initial", "fixed"}
              /\ fixArgs[2] # "null"
  /\ codingPc = "returned" =>
       /\ codingOutput.returned
       /\ codingOutput.videoFile <=> ~codingOutput.errors
       /\ codingOutput.videoFile => renders >= 1
       /\ codingOutput.errors => iterations = maxIterations


\* the messages after the system prompt
Conversation ==
  IF systemPrompt
    THEN SubSeq(conversationHistory, 2, Len(conversationHistory))
    ELSE conversationHistory

\* C38: after any sequence of sendMessage calls, successful or failing, and
\* reset calls, the system prompt, when configured, is the first and only
\* system message and the remaining messages alternate user, assistant.
C38_HistoryWellFormed ==
  /\ systemPrompt =>
       /\ conversationHistory # <<>>
       /\ conversationHistory[1] = "system"
  /\ \A i \in 1..Len(Conversation) :
       Conversation[i] = IF i % 2 = 1 THEN "user" ELSE "assistant"


\* C39: generateEducationalVideo never throws; it returns success = true
\* with the list of final video paths exactly when the run ended with status
\* completed, and otherwise success = false with an error string, also when
\* configuration loading, validation or construction fails.
C39_NeverThrowsAndReports ==
  apiResult.returned =>
    /\ ~apiResult.thrown
    /\ apiResult.success <=> (pc = "returned" /\ status = "completed")
    /\ apiResult.success => apiResult.videos = finalVideos
    /\ ~apiResult.success => apiResult.error # <<>>

=============================================================================
